---- MODULE Spec2Model ----
(***************************************************************************)
(* Weather MCP demo: the session-oriented gateway (POST /mcp), the         *)
(* stateless JSON-RPC router (POST /mcp-low) and the paywall protocol      *)
(* (authorize -> handler -> redeem) wrapped around every capability.       *)
(*                                                                         *)
(* One behaviour is one server process: the session-oriented app (with or  *)
(* without the authenticateMeta middleware argument) or the stateless app. *)
(* Requests are handled concurrently; every action is one synchronous     *)
(* segment of a handler, from one await to the next.                       *)
(***************************************************************************)
EXTENDS Integers, Sequences, FiniteSets, TLC

\* ------------------------------------------------------------------ bounds
MaxInFlight == 2
MaxTransports == 2

\* ------------------------------------------------------- program constants
PaymentRequired == -32003
NoValidSession == -32000
InternalError == -32603
MethodNotFound == -32601
InvalidRequest == -32600
NetworkError == -32002
CityNotFound == -32004
CreditsBase == 5
CreditsSpread == 10
PromptCredits == 0

\* Sentinels: a success envelope, an error without a JSON-RPC code field,
\* an absent mcp-session-id header, no transport (undefined).
OkCode == 0
NoCode == 1
NoSid == 0
NoTr == 0

\* No agentRequestId: startProcessingRequest has not returned one.
NoReq == 0

\* A body or a response without an id field, and a response with id: null.
NoId == 0
NullId == -1

GATED_METHODS == {"tools/list", "resources/list", "prompts/list"}

gatedMethods == {"initialize", "tools/list", "resources/list", "prompts/list"}

CapabilityMethods == {"tools/call", "resources/read", "prompts/get", "prompts/call"}

Slots == 1..MaxInFlight

SessionIds == 1..MaxTransports

NoResult == [kind |-> "none", city |-> "-"]

NoError == [code |-> OkCode, msg |-> "-"]

Idle == [pc |-> "idle"]

NoCall == [op |-> "none", sid |-> NoSid, found |-> FALSE, tr |-> NoTr, flip |-> FALSE]

\* call: the last direct call of a SessionManager method and what it returned.
\* proc: the operating-system process: its environment and how far main got.
VARIABLES app, slots, transports, sessions, call, proc

vars == <<app, slots, transports, sessions, call, proc>>

\* ---------------------------------------------------------------- startup
\* process.env: NVM_SERVER_API_KEY and NVM_AGENT_ID are set or not; NVM_ENV
\* is "" when it is not set.
Environments ==
    [key : BOOLEAN, agent : BOOLEAN, selector : {"", "production"}]

NoConfig == [ok |-> FALSE, nvmEnvironment |-> "-"]

\* Variant: the agent identifier is not validated.
loadEnvironmentConfig_noAgentCheck(env) ==
    IF ~env.key THEN NoConfig
    ELSE [ok |-> TRUE,
          nvmEnvironment |-> IF env.selector = "" THEN "staging_sandbox" ELSE env.selector]

\* ok = FALSE: it throws.
loadEnvironmentConfig(env) ==
    IF ~env.key THEN NoConfig
    ELSE IF ~env.agent THEN NoConfig
    ELSE [ok |-> TRUE,
          nvmEnvironment |-> IF env.selector = "" THEN "staging_sandbox" ELSE env.selector]

Boot(env) == [state |-> "starting", env |-> env, config |-> NoConfig]

\* main: new WeatherMcpApp() (or the low-level app); a throwing constructor
\* ends the process with exit code 1.
Construct ==
    LET config == loadEnvironmentConfig(proc.env)
    IN  /\ proc.state = "starting"
        /\ proc' = [proc EXCEPT !.state = IF config.ok THEN "constructed" ELSE "exited",
                                !.config = config]
        /\ UNCHANGED <<app, slots, transports, sessions, call>>

\* app.start(): app.listen(port)
Listen ==
    /\ proc.state = "constructed"
    /\ proc' = [proc EXCEPT !.state = "listening"]
    /\ UNCHANGED <<app, slots, transports, sessions, call>>

Listening == proc.state = "listening"

\* A process that has started with a complete environment.
Running ==
    LET env == [key |-> TRUE, agent |-> TRUE, selector |-> ""]
    IN  [state |-> "listening", env |-> env, config |-> loadEnvironmentConfig(env)]

\* --------------------------------------------------------------- requests
\* body.shape: "object" (a JSON object), "array" (a batch), "empty" (no body).
\* name: params.name of a call; for resources/read the resource whose template
\* params.uri matches, with city the path variable of that URI.
\* method "none": the body has no string method field.
\* inner: the method of the message a batch contains ("-": not a batch).
NewReq(disc, shape, method, isInit, sid, cred, name, city) ==
    [verb |-> "POST", disc |-> disc, shape |-> shape, method |-> method, isInit |-> isInit,
     inner |-> "-", id |-> NoId, sid |-> sid, cred |-> cred, name |-> name, city |-> city,
     pc |-> "new", gate |-> "none", looked |-> FALSE, tr |-> NoTr,
     gerr |-> NoError, fail |-> NoError,
     authz |-> "none", steps |-> <<>>, hres |-> NoResult, herr |-> NoError,
     reqId |-> NoReq, redeemReq |-> NoReq, redeemCred |-> "none",
     price |-> 0, redeemAmt |-> 0, redeemOk |-> TRUE,
     answers |-> 0,
     resp |-> [code |-> OkCode, msg |-> "-", result |-> NoResult, id |-> NoId]]

Count(seq, x) == Cardinality({i \in DOMAIN seq : seq[i] = x})

\* ------------------------------------------------------- request classifier
extractAuthHeader(r) == r.cred # "none"

\* Variant: the inline gate applies to every string method.
shouldGateRequest_anyMethod(r) == r.shape # "empty" /\ r.method # "none"

\* Variant: the inline gate forgets the session-establishment method.
shouldGateRequest_listsOnly(r) ==
    /\ r.shape # "empty"
    /\ r.method # "none"
    /\ r.method \in GATED_METHODS

shouldGateRequest(r) ==
    /\ r.shape # "empty"
    /\ r.method # "none"
    /\ (r.method \in GATED_METHODS \/ r.method = "initialize")

\* Variant: the middleware forgets the session-establishment method.
MiddlewareGated_listsOnly(r) ==
    /\ r.method # "none"
    /\ r.method \in GATED_METHODS

MiddlewareGated(r) ==
    /\ r.method # "none"
    /\ (r.method \in GATED_METHODS \/ r.method = "initialize")

isInitializeRequest(r) == r.shape = "object" /\ r.method = "initialize" /\ r.isInit

\* --------------------------------------------------------- session manager
\* Variant: the check succeeds whenever any session is registered.
hasSession_anySession(sid) == sessions # {}

hasSession(sid) == \E e \in sessions : e.sid = sid

\* Variant: the lookup does not compare the key.
getTransport_anyKey(sid) ==
    IF \E e \in sessions : e.sid = sid
    THEN (CHOOSE e \in sessions : \A f \in sessions : e.sid <= f.sid).tr
    ELSE NoTr

\* Map.get: the transport stored under the key, undefined (NoTr) without one.
getTransport(sid) ==
    IF \E e \in sessions : e.sid = sid
    THEN (CHOOSE e \in sessions : e.sid = sid).tr
    ELSE NoTr

\* Variant: the generator returns the same identifier every time.
randomUUID_repeats == NoSid + 1

\* The generator never returns an identifier it returned before.
randomUUID == Cardinality({t \in DOMAIN transports : transports[t].sessionId # NoSid}) + 1

createTransport == Append(transports, [sessionId |-> NoSid, closed |-> FALSE])

\* Variant: the callback does not store the transport.
onsessioninitialized_dropped(sid, tr) == sessions

onsessioninitialized(sid, tr) == {e \in sessions : e.sid # sid} \cup {[sid |-> sid, tr |-> tr]}

\* Variant: the close callback empties the table.
onclose_clearsTable(tr) == {}

\* Variant: the close callback leaves the table entry in place.
onclose_keepsEntry(tr) == sessions

onclose(tr) ==
    IF transports[tr].sessionId # NoSid
    THEN {e \in sessions : e.sid # transports[tr].sessionId}
    ELSE sessions

removeTransport(sid) == {e \in sessions : e.sid # sid}

\* Responses built by the gateway's own handlers carry id: null.
\* answers: how many times a response was written for the request.
Respond(r, code, msg, result) ==
    [r EXCEPT !.pc = "done", !.answers = @ + 1,
              !.resp = [code |-> code, msg |-> msg, result |-> result, id |-> NullId]]

\* body.id ?? null
IdOrNull(r) == IF r.id = NoId THEN NullId ELSE r.id

\* A response whose id field is set to id (NoId: the field is left out).
Envelope(r, id) == [r EXCEPT !.resp.id = id]

\* The session transport answers a message under the id the message carries.
TransportRespond(r, code, msg, result) == Envelope(Respond(r, code, msg, result), r.id)

\* Variant: the catch block answers like the no-session branch.
CatchBlock_noSession(r, e) ==
    [Respond(r, NoValidSession, "Internal server error", NoResult) EXCEPT !.fail = e]

\* Variant: the catch block answers without a JSON-RPC error code.
CatchBlock_noCode(r, e) ==
    [Respond(r, NoCode, "Internal server error", NoResult) EXCEPT !.fail = e]

\* Variant: the catch block answers whether or not a response was started.
CatchBlock_unguarded(r, e) ==
    [Respond(r, InternalError, "Internal server error", NoResult) EXCEPT !.fail = e]

\* res.headersSent
headersSent(r) == r.answers > 0

\* The catch block of the POST, GET and DELETE handlers; fail: the error it
\* caught.  It writes nothing when a response has been started.
CatchBlock(r, e) ==
    IF headersSent(r)
    THEN [r EXCEPT !.pc = "done", !.fail = e]
    ELSE [Respond(r, InternalError, "Internal server error", NoResult) EXCEPT !.fail = e]

\* An error thrown by the transport or by server.connect: it has no code.
Thrown(msg) == [code |-> NoCode, msg |-> msg]

\* The stateless router's error answers: { error: { code, message } }.
LowError(r, code, msg) == Envelope(Respond(r, code, msg, NoResult), NoId)

\* ------------------------------------------------------------ registries
Kind(r) ==
    IF r.method = "tools/call" THEN "tool"
    ELSE IF r.method = "resources/read" THEN "resource"
    ELSE "prompt"

\* tools = {weather.today}, prompts = {weather.ensureCity}; the resource
\* handler is always resolved under the fixed name weather.today.
tools == {"weather.today"}

prompts == {"weather.ensureCity"}

\* The one registered resource, with template weather://today/{city}.
resources == {"weather.today"}

Registered(r) ==
    CASE Kind(r) = "tool" -> r.name \in tools
      [] Kind(r) = "prompt" -> r.name \in prompts
      [] OTHER -> TRUE

\* The city the raw handler receives: the stateless router passes empty path
\* variables to the resource handler, whose decodeURIComponent(undefined)
\* yields the string "undefined".
HandlerCity(r) ==
    IF r.disc = "low" /\ Kind(r) = "resource" THEN "undefined" ELSE r.city

\* Open-Meteo geocoding knows Madrid only.
GeocodeKnown == {"Madrid"}

\* ---------------------------------------------------------------- pricing
\* Math.floor(Math.random() * 10): the smallest and the largest outcome.
RandomFloors == {0, CreditsSpread - 1}

weatherToolCreditsCalculator(rnd) == CreditsBase + rnd

Prices(r) ==
    IF Kind(r) = "prompt" THEN {PromptCredits}
    ELSE {weatherToolCreditsCalculator(rnd) : rnd \in RandomFloors}

\* ------------------------------------------------ leaving the paywall wrapper
\* The stateless router wraps a result in a success envelope and turns any
\* thrown error into code -32603 with the error's message; the session
\* transport reports the error with the code it carries.
ExitError(r, e) ==
    IF r.disc = "low"
    THEN [LowError(r, InternalError, e.msg) EXCEPT !.fail = e]
    ELSE TransportRespond(r, IF e.code = NoCode THEN InternalError ELSE e.code, e.msg, NoResult)

\* Variant: the success envelope is built without the request's id.
ExitResult_nullId(r, res) == Respond(r, OkCode, "-", res)

ExitResult(r, res) ==
    IF r.disc = "low"
    THEN Envelope(Respond(r, OkCode, "-", res), IdOrNull(r))
    ELSE TransportRespond(r, OkCode, "-", res)

\* --------------------------------------------------------- paywall wrapper
\* Variant: the authorization call is issued a second time.
PaywallStart_authorizesTwice(r) ==
    LET r1 == [r EXCEPT !.steps = Append(@, "extract")]
    IN  IF ~extractAuthHeader(r1)
        THEN ExitError(r1, [code |-> PaymentRequired, msg |-> "Authorization required"])
        ELSE [r1 EXCEPT !.pc = "authz", !.authz = "pending",
                        !.steps = Append(Append(@, "authorize"), "authorize")]

\* Step 1: extract the credential; absent -> authorization required.
\* Step 2 starts: startProcessingRequest is called.
PaywallStart(r) ==
    LET r1 == [r EXCEPT !.steps = Append(@, "extract")]
    IN  IF ~extractAuthHeader(r1)
        THEN ExitError(r1, [code |-> PaymentRequired, msg |-> "Authorization required"])
        ELSE [r1 EXCEPT !.pc = "authz", !.authz = "pending",
                        !.steps = Append(@, "authorize")]

\* Variant: a failed redemption is thrown to the caller.
RedeemFailureOutcome_propagate(r) ==
    ExitError(r, [code |-> NetworkError, msg |-> "Failed to redeem credits"])

\* A failed redemption does not replace the handler result.
RedeemFailureOutcome(r) == ExitResult(r, r.hres)

\* Variant: a zero price skips the redeem call.
RedeemIsCalled_skipZero(price) == price > 0

\* The redeem call is made for every resolved price, zero included.
RedeemIsCalled(price) == TRUE

\* Variant: the redeem call names the first request the service ever issued.
RedeemArgs_firstRequest(r) == [req |-> NoReq + 1, cred |-> r.cred]

\* redeemCreditsFromRequest(start.agentRequestId, token, credits): the
\* invocation's own authorization result and its own token.
RedeemArgs(r) == [req |-> r.reqId, cred |-> r.cred]

\* Steps 4 and 5 start: the price is resolved from the handler result and
\* redeemCreditsFromRequest is called with it.
PaywallAfterHandler(r, res, price) ==
    LET r1 == [r EXCEPT !.hres = res, !.price = price,
                        !.steps = Append(@, "price")]
    IN  IF RedeemIsCalled(price)
        THEN [r1 EXCEPT !.pc = "redeem", !.redeemAmt = price,
                        !.redeemReq = RedeemArgs(r).req,
                        !.redeemCred = RedeemArgs(r).cred,
                        !.steps = Append(@, "redeem")]
        ELSE ExitResult([r1 EXCEPT !.steps = Append(@, "return")], res)

\* Variant: the credits are burnt before the handler runs.
PaywallInvoke_chargeFirst(r, price) ==
    [r EXCEPT !.pc = "redeem", !.price = price, !.redeemAmt = price,
              !.steps = Append(Append(@, "price"), "redeem")]

\* Step 3: the raw handler is invoked.  The prompt handler is synchronous;
\* the tool and resource handlers await getTodayWeather.
PaywallInvoke(r, price) ==
    LET r1 == [r EXCEPT !.steps = Append(@, "invoke")]
    IN  IF Kind(r) = "prompt"
        THEN PaywallAfterHandler(r1, [kind |-> "prompt", city |-> HandlerCity(r)], price)
        ELSE [r1 EXCEPT !.pc = "handler"]

\* startProcessingRequest: the caller is an active subscriber ("ok"), is not
\* one ("notsub"), or the call fails on the token or on the network.
AuthzOutcomes == {"ok", "notsub", "invalid", "network"}

\* Variant: the isSubscriber flag of the balance is not looked at.
PaywallOnAuthorized_noSubscriberCheck(r, price) ==
    CASE r.authz \in {"ok", "notsub"} -> PaywallInvoke(r, price)
      [] r.authz = "network" ->
           ExitError(r, [code |-> NetworkError, msg |-> "Network error"])
      [] OTHER ->
           ExitError(r, [code |-> PaymentRequired, msg |-> "Payment required"])

\* Step 2 ends: only an active subscriber reaches the handler.
PaywallOnAuthorized(r, price) ==
    CASE r.authz = "ok" -> PaywallInvoke(r, price)
      [] r.authz = "network" ->
           ExitError(r, [code |-> NetworkError, msg |-> "Network error"])
      [] OTHER ->
           ExitError(r, [code |-> PaymentRequired, msg |-> "Payment required"])

\* The agentRequestId startProcessingRequest returns: one that no request
\* in flight holds.
agentRequestId ==
    CHOOSE i \in Slots : \A t \in Slots : slots[t] = Idle \/ slots[t].reqId # i

PaywallAuthorize(s, outcome) ==
    LET r == slots[s]
        start == IF outcome \in {"ok", "notsub"} THEN agentRequestId ELSE NoReq
    IN  /\ r.pc = "authz"
        /\ \E price \in Prices(r) :
              slots' = [slots EXCEPT ![s] =
                          PaywallOnAuthorized([r EXCEPT !.authz = outcome, !.reqId = start],
                                              price)]
        /\ UNCHANGED <<app, proc, transports, sessions, call>>

\* Variant: the wrapper reports every handler failure as a payment error.
HandlerFailure_masked(r, e) ==
    ExitError([r EXCEPT !.herr = e], [code |-> PaymentRequired, msg |-> "Payment required"])

\* A failure of the raw handler propagates as it is.
HandlerFailure(r, e) == ExitError([r EXCEPT !.herr = e], e)

\* getTodayWeather returns or fails.
HandlerDone(s, reachable) ==
    LET r == slots[s]
        city == HandlerCity(r)
    IN  /\ r.pc = "handler"
        /\ \E price \in Prices(r) : slots' = [slots EXCEPT ![s] =
              IF ~reachable
              THEN HandlerFailure(r, [code |-> NoCode, msg |-> "Failed to reach Open-Meteo"])
              ELSE IF city \notin GeocodeKnown
              THEN HandlerFailure(r, [code |-> NoCode, msg |-> "City not found"])
              ELSE PaywallAfterHandler(r, [kind |-> Kind(r), city |-> city], price)]
        /\ UNCHANGED <<app, proc, transports, sessions, call>>

\* Step 5 ends, step 6: the handler result is returned.
RedeemDone(s, ok) ==
    LET r == slots[s]
        r1 == [r EXCEPT !.redeemOk = ok, !.steps = Append(@, "return")]
    IN  /\ r.pc = "redeem"
        /\ slots' = [slots EXCEPT ![s] =
              IF ok THEN ExitResult(r1, r1.hres) ELSE RedeemFailureOutcome(r1)]
        /\ UNCHANGED <<app, proc, transports, sessions, call>>

\* ----------------------------------------------------- stateless router
\* Dispatch after the gate: initialize, tools/call, resources/read,
\* prompts/call, otherwise "Method not found".
LowDispatch(r) ==
    IF r.method = "initialize"
    THEN Envelope(Respond(r, OkCode, "-", [kind |-> "initialize", city |-> "-"]), IdOrNull(r))
    ELSE IF r.method = "tools/call" /\ r.name # "-"
    THEN IF r.name \in tools THEN PaywallStart(r)
         ELSE LowError(r, MethodNotFound, "Tool not found")
    ELSE IF r.method = "resources/read" /\ r.city # "-"
    THEN PaywallStart(r)
    ELSE IF r.method = "prompts/call" /\ r.name # "-"
    THEN IF r.name \in prompts THEN PaywallStart(r)
         ELSE LowError(r, MethodNotFound, "Prompt not found")
    ELSE LowError(r, MethodNotFound, "Method not found")

\* Variant: the stateless gate leaves out the session-establishment method.
LowGated_listsOnly(r) == r.method # "none" /\ r.method \in GATED_METHODS

LowGated(r) == r.method # "none" /\ r.method \in gatedMethods

\* handle(req, res) up to its first await.
LowHandle(r) ==
    IF r.shape = "empty"
    THEN LowError(r, InvalidRequest, "Invalid request")
    ELSE IF LowGated(r)
    THEN [r EXCEPT !.pc = "gate", !.gate = "pending"]
    ELSE LowDispatch(r)

\* What payments.mcp.authenticateMeta may do with a request: without a
\* credential it rejects with -32003; with one it resolves, or rejects with
\* -32003, with a network error, or with an error that has no code.
MetaOutcomes(r) ==
    IF ~extractAuthHeader(r) THEN {PaymentRequired}
    ELSE {OkCode, PaymentRequired, NetworkError, NoCode}

\* The message of the error authenticateMeta rejects with; "" when the
\* rejection carries no message.
MetaMessage(code) ==
    CASE code = PaymentRequired -> "Authorization required"
      [] code = NetworkError -> "Network error"
      [] OTHER -> ""

\* Variant: a rejection without a code is reported as an internal error.
GateErrorCode_internal(code) == IF code = NoCode THEN InternalError ELSE code

\* err?.code ?? -32003
GateErrorCode(code) == IF code = NoCode THEN PaymentRequired ELSE code

\* err?.message || "Payment required"
GateErrorMessage(msg) == IF msg = "" THEN "Payment required" ELSE msg

\* gerr: the error the check rejected with.
GateReject(r, code) ==
    LET err == [code |-> code, msg |-> MetaMessage(code)]
    IN  Envelope(Respond([r EXCEPT !.gate = "rejected", !.gerr = err],
                         GateErrorCode(err.code), GateErrorMessage(err.msg), NoResult),
                 IdOrNull(r))

LowArrive(s, input) ==
    /\ app = "low"
    /\ slots[s] = Idle
    /\ \A t \in Slots : t < s => slots[t] # Idle
    /\ slots' = [slots EXCEPT ![s] = LowHandle(input)]
    /\ UNCHANGED <<app, proc, transports, sessions, call>>

LowGateResolve(s, code) ==
    LET r == slots[s]
    IN  /\ app = "low"
        /\ r.pc = "gate"
        /\ code \in MetaOutcomes(r)
        /\ slots' = [slots EXCEPT ![s] =
              IF code = OkCode THEN LowDispatch([r EXCEPT !.gate = "ok"])
              ELSE GateReject(r, code)]
        /\ UNCHANGED <<app, proc, transports, sessions, call>>

\* ------------------------------------------------- session-oriented gateway
\* Variant: the establishment branch does not require the header to be absent.
RouteDecision_createWithId(r) ==
    IF shouldGateRequest(r) /\ ~extractAuthHeader(r) THEN "unauthorized"
    ELSE IF r.sid # NoSid /\ hasSession(r.sid) THEN "known"
    ELSE IF isInitializeRequest(r) THEN "create"
    ELSE "nosession"

\* The POST handler from its entry to its first await.
RouteDecision(r) ==
    IF shouldGateRequest(r) /\ ~extractAuthHeader(r) THEN "unauthorized"
    ELSE IF r.sid # NoSid /\ hasSession(r.sid) THEN "known"
    ELSE IF r.sid = NoSid /\ isInitializeRequest(r) THEN "create"
    ELSE "nosession"

\* Variant: the unroutable message is answered as an invalid request.
NoSessionResponse_invalidRequest(r) ==
    Respond(r, InvalidRequest, "Bad Request: No valid session ID provided", NoResult)

NoSessionResponse(r) ==
    Respond(r, NoValidSession, "Bad Request: No valid session ID provided", NoResult)

PostHandler(s, r) ==
    LET d == RouteDecision(r)
    IN  CASE d = "unauthorized" ->
               /\ slots' = [slots EXCEPT ![s] =
                     Envelope(Respond([r EXCEPT !.gate = "rejected"], PaymentRequired,
                                      "Payment required: missing Authorization header", NoResult),
                              IdOrNull(r))]
               /\ UNCHANGED <<transports, sessions>>
          [] d = "known" ->
               /\ slots' = [slots EXCEPT ![s] =
                     [r EXCEPT !.pc = "handle", !.looked = TRUE,
                               !.tr = getTransport(r.sid)]]
               /\ UNCHANGED <<transports, sessions>>
          [] d = "create" ->
               /\ Len(transports) < MaxTransports
               /\ transports' = createTransport
               /\ slots' = [slots EXCEPT ![s] =
                     [r EXCEPT !.pc = "connect", !.looked = TRUE,
                               !.tr = Len(transports) + 1]]
               /\ UNCHANGED sessions
          [] OTHER ->
               /\ slots' = [slots EXCEPT ![s] = NoSessionResponse([r EXCEPT !.looked = TRUE])]
               /\ UNCHANGED <<transports, sessions>>

\* The middleware in front of the POST handler.
PostArrive(s, input) ==
    /\ app \in {"high", "highNoMeta"}
    /\ slots[s] = Idle
    /\ \A t \in Slots : t < s => slots[t] # Idle
    /\ IF MiddlewareGated(input) /\ app = "high"
       THEN /\ slots' = [slots EXCEPT ![s] = [input EXCEPT !.pc = "gate", !.gate = "pending"]]
            /\ UNCHANGED <<transports, sessions>>
       ELSE PostHandler(s, input)
    /\ UNCHANGED <<app, proc, call>>

GateResolve(s, code) ==
    LET r == slots[s]
    IN  /\ app = "high"
        /\ r.pc = "gate"
        /\ code \in MetaOutcomes(r)
        /\ IF code = OkCode
           THEN PostHandler(s, [r EXCEPT !.gate = "ok"])
           ELSE /\ slots' = [slots EXCEPT ![s] = GateReject(r, code)]
                /\ UNCHANGED <<transports, sessions>>
        /\ UNCHANGED <<app, proc, call>>

\* await server.connect(transport)
ServerConnect(s, ok) ==
    LET r == slots[s]
    IN  /\ r.pc = "connect"
        /\ slots' = [slots EXCEPT ![s] =
              IF ok THEN [r EXCEPT !.pc = "handle"]
              ELSE CatchBlock(r, Thrown("connect failed"))]
        /\ UNCHANGED <<app, proc, transports, sessions, call>>

\* await transport.handleRequest(req, res, req.body): the transport rejects
\* the request, throws, or hands the message to the server instance.
TransportHandle(s, outcome) ==
    LET r == slots[s]
        t == transports[r.tr]
    IN  /\ r.pc = "handle"
        /\ r.verb = "POST"
        /\ CASE outcome = "throw" ->
                 /\ slots' = [slots EXCEPT ![s] =
                       CatchBlock(r, Thrown("handleRequest failed"))]
                 /\ UNCHANGED <<transports, sessions>>
            [] outcome = "reject" ->
                 /\ slots' = [slots EXCEPT ![s] =
                       Respond(r, InvalidRequest, "Bad Request", NoResult)]
                 /\ UNCHANGED <<transports, sessions>>
            [] outcome = "late" ->
                 \* the transport started its response, then threw
                 /\ slots' = [slots EXCEPT ![s] =
                       CatchBlock(Respond(r, InvalidRequest, "Bad Request", NoResult),
                                  Thrown("handleRequest failed"))]
                 /\ UNCHANGED <<transports, sessions>>
            [] OTHER ->
                 IF isInitializeRequest(r)
                 THEN IF t.sessionId = NoSid
                      THEN LET id == randomUUID
                           IN /\ transports' = [transports EXCEPT ![r.tr].sessionId = id]
                              /\ sessions' = onsessioninitialized(id, r.tr)
                              /\ slots' = [slots EXCEPT ![s] =
                                    TransportRespond(r, OkCode, "-", [kind |-> "initialize", city |-> "-"])]
                      ELSE /\ slots' = [slots EXCEPT ![s] =
                                 Respond(r, InvalidRequest, "Server already initialized", NoResult)]
                           /\ UNCHANGED <<transports, sessions>>
                 ELSE /\ slots' = [slots EXCEPT ![s] =
                            IF r.method \in GATED_METHODS
                            THEN TransportRespond(r, OkCode, "-", [kind |-> "list", city |-> "-"])
                            ELSE IF r.method \in CapabilityMethods /\ Registered(r)
                            THEN PaywallStart(r)
                            ELSE TransportRespond(r, MethodNotFound, "Method not found", NoResult)]
                      /\ UNCHANGED <<transports, sessions>>
        /\ UNCHANGED <<app, proc, call>>

\* Variant: closing the transport aborts the requests it is serving.
TransportClose_cancelsInFlight(tr) ==
    /\ tr \in DOMAIN transports
    /\ transports[tr].sessionId # NoSid
    /\ ~transports[tr].closed
    /\ transports' = [transports EXCEPT ![tr].closed = TRUE]
    /\ sessions' = onclose(tr)
    /\ slots' = [s \in Slots |->
                    IF slots[s] # Idle /\ slots[s].tr = tr /\ slots[s].pc # "done"
                    THEN Respond(slots[s], InternalError, "Connection closed", NoResult)
                    ELSE slots[s]]
    /\ UNCHANGED <<app, proc, call>>

\* transport.onclose, fired when the transport of an established session is
\* closed.  Before the transport has handled initialize the only reference
\* to it is the local variable of the POST handler, which never closes it.
TransportClose(tr) ==
    /\ tr \in DOMAIN transports
    /\ transports[tr].sessionId # NoSid
    /\ ~transports[tr].closed
    /\ transports' = [transports EXCEPT ![tr].closed = TRUE]
    /\ sessions' = onclose(tr)
    /\ UNCHANGED <<app, proc, slots, call>>

\* transport.onclose of a transport that never handled initialize and that
\* no request refers to any more (its establishment failed).
OrphanClose(tr) ==
    /\ tr \in DOMAIN transports
    /\ transports[tr].sessionId = NoSid
    /\ ~transports[tr].closed
    /\ \A s \in Slots : IF slots[s] = Idle THEN TRUE ELSE slots[s].tr # tr
    /\ transports' = [transports EXCEPT ![tr].closed = TRUE]
    /\ sessions' = onclose(tr)
    /\ UNCHANGED <<app, proc, slots, call>>

\* ------------------------------------------------ GET /mcp and DELETE /mcp
NewSessionReq(verb, sid) ==
    [NewReq("high", "empty", "none", FALSE, sid, "none", "-", "-") EXCEPT !.verb = verb]

\* res.status(400).send("Invalid or missing session ID"): plain text, no code.
InvalidSessionResponse(r) ==
    Envelope(Respond(r, NoCode, "Invalid or missing session ID", NoResult), NoId)

\* The GET and the DELETE handler (the same code) up to their first await.
SessionVerbHandler(s, r) ==
    IF r.sid = NoSid \/ ~hasSession(r.sid)
    THEN slots' = [slots EXCEPT ![s] =
            InvalidSessionResponse([r EXCEPT !.looked = (r.sid # NoSid)])]
    ELSE slots' = [slots EXCEPT ![s] =
            [r EXCEPT !.pc = "handle", !.looked = TRUE, !.tr = getTransport(r.sid)]]

GetArrive(s, sid) ==
    /\ app \in {"high", "highNoMeta"}
    /\ slots[s] = Idle
    /\ \A t \in Slots : t < s => slots[t] # Idle
    /\ SessionVerbHandler(s, NewSessionReq("GET", sid))
    /\ UNCHANGED <<app, proc, transports, sessions, call>>

DeleteArrive(s, sid) ==
    /\ app \in {"high", "highNoMeta"}
    /\ slots[s] = Idle
    /\ \A t \in Slots : t < s => slots[t] # Idle
    /\ SessionVerbHandler(s, NewSessionReq("DELETE", sid))
    /\ UNCHANGED <<app, proc, transports, sessions, call>>

\* await transport.handleRequest(req, res) for GET and DELETE: the transport
\* throws, opens the notification stream (GET), or closes itself (DELETE),
\* which fires its onclose callback.
SessionVerbHandle(s, ok) ==
    LET r == slots[s]
    IN  /\ r.pc = "handle"
        /\ r.verb # "POST"
        /\ IF ~ok
           THEN /\ slots' = [slots EXCEPT ![s] =
                      CatchBlock(r, Thrown("handleRequest failed"))]
                /\ UNCHANGED <<transports, sessions>>
           ELSE IF r.verb = "GET"
           THEN /\ slots' = [slots EXCEPT ![s] =
                      Respond(r, OkCode, "-", [kind |-> "stream", city |-> "-"])]
                /\ UNCHANGED <<transports, sessions>>
           ELSE /\ transports' = [transports EXCEPT ![r.tr].closed = TRUE]
                /\ sessions' = onclose(r.tr)
                /\ slots' = [slots EXCEPT ![s] =
                      Respond(r, OkCode, "-", [kind |-> "closed", city |-> "-"])]
        /\ UNCHANGED <<app, proc, call>>

\* ------------------------------------- direct calls of the session manager
\* Variant: the method reports success whatever the table held.
removeTransportResult_alwaysTrue(sid) == TRUE

\* Map.delete returns whether the key was present.
removeTransportResult(sid) == \E e \in sessions : e.sid = sid

RemoveTransportCall(sid) ==
    /\ call' = [op |-> "removeTransport", sid |-> sid,
                found |-> removeTransportResult(sid), tr |-> NoTr, flip |-> ~call.flip]
    /\ sessions' = removeTransport(sid)
    /\ UNCHANGED <<app, proc, slots, transports>>

GetTransportCall(sid) ==
    /\ call' = [op |-> "getTransport", sid |-> sid,
                found |-> getTransport(sid) # NoTr, tr |-> getTransport(sid),
                flip |-> ~call.flip]
    /\ UNCHANGED <<app, proc, slots, transports, sessions>>

HasSessionCall(sid) ==
    /\ call' = [op |-> "hasSession", sid |-> sid,
                found |-> hasSession(sid), tr |-> NoTr, flip |-> ~call.flip]
    /\ UNCHANGED <<app, proc, slots, transports, sessions>>

\* The response has been written; the request is over.
Retire(s) ==
    /\ slots[s] # Idle
    /\ slots[s].pc = "done"
    /\ slots' = [slots EXCEPT ![s] = Idle]
    /\ UNCHANGED <<app, proc, transports, sessions, call>>

\* ------------------------------------------------------------------ inputs
Creds == {"none", "token"}

Cities == {"Madrid", "Nowhereistan"}

GatedInputs(disc, sids) ==
    {NewReq(disc, "object", m, m = "initialize" /\ wf, sid, c, "-", "-") :
        m \in gatedMethods, wf \in BOOLEAN, sid \in sids, c \in Creds}

\* Bodies without a method field of their own; an array is a batch that
\* holds one tools/list message.
OtherInputs(disc, shapes, sids) ==
    {[NewReq(disc, sh, "none", FALSE, sid, "none", "-", "-")
         EXCEPT !.inner = IF sh = "array" THEN "tools/list" ELSE "-"] :
        sh \in shapes, sid \in sids}

HighInputs ==
    LET sids == {NoSid} \cup SessionIds
    IN  GatedInputs("high", sids) \cup OtherInputs("high", {"array"}, sids)
        \cup {NewReq("high", "object", "tools/call", FALSE, sid, c, "weather.today", "Madrid") :
                 sid \in sids, c \in Creds}
        \cup {NewReq("high", "object", "resources/read", FALSE, sid, "token", "weather.today", "Nowhereistan") :
                 sid \in {1}}
        \cup {NewReq("high", "object", "prompts/get", FALSE, sid, "token", "weather.ensureCity", "Madrid") :
                 sid \in {1}}

LowInputs ==
    GatedInputs("low", {NoSid}) \cup OtherInputs("low", {"object", "array", "empty"}, {NoSid})
        \cup {NewReq("low", "object", "tools/call", FALSE, NoSid, c, n, city) :
                 c \in Creds, n \in tools \cup prompts, city \in Cities}
        \cup {NewReq("low", "object", "prompts/call", FALSE, NoSid, c, n, "Madrid") :
                 c \in Creds, n \in tools \cup prompts}
        \cup {NewReq("low", "object", "resources/read", FALSE, NoSid, c, "weather.today", city) :
                 c \in Creds, city \in Cities}

\* ------------------------------------------------------------ specification
Init ==
    /\ app \in {"high", "highNoMeta", "low"}
    /\ slots = [s \in Slots |-> Idle]
    /\ transports = <<>>
    /\ sessions = {}
    /\ call = NoCall
    /\ proc = Running

Next ==
    \/ \E s \in Slots, input \in HighInputs : PostArrive(s, input)
    \/ \E s \in Slots, code \in {OkCode, PaymentRequired, NetworkError, NoCode} : GateResolve(s, code)
    \/ \E s \in Slots, ok \in BOOLEAN : ServerConnect(s, ok)
    \/ \E s \in Slots, outcome \in {"ok", "reject", "throw"} : TransportHandle(s, outcome)
    \/ \E tr \in 1..MaxTransports : TransportClose(tr)
    \/ \E s \in Slots, input \in LowInputs : LowArrive(s, input)
    \/ \E s \in Slots, code \in {OkCode, PaymentRequired, NetworkError, NoCode} : LowGateResolve(s, code)
    \/ \E s \in Slots, outcome \in AuthzOutcomes  : PaywallAuthorize(s, outcome)
    \/ \E s \in Slots, reachable \in BOOLEAN  : HandlerDone(s, reachable)
    \/ \E s \in Slots, ok \in BOOLEAN : RedeemDone(s, ok)
    \/ \E s \in Slots, sid \in {NoSid} \cup SessionIds : GetArrive(s, sid)
    \/ \E s \in Slots, sid \in {NoSid} \cup SessionIds : DeleteArrive(s, sid)
    \/ \E s \in Slots, ok \in BOOLEAN : SessionVerbHandle(s, ok)
    \/ \E s \in Slots : Retire(s)

Spec == Init /\ [][Next]_vars

\* The session manager on its own: sessions are established, used, closed
\* and terminated, and its methods are also called directly.
SessionInputs ==
    {NewReq("high", "object", "initialize", TRUE, NoSid, "token", "-", "-")}
        \cup {NewReq("high", "object", "tools/list", FALSE, sid, "token", "-", "-") :
                 sid \in SessionIds}

\* Session identifiers passed to direct calls: every one that can be
\* registered and one that never is.
CallSids == 1..(MaxTransports + 1)

SessionInit == Init /\ app \in {"high", "highNoMeta"}

SessionNext ==
    \/ \E s \in Slots, input \in SessionInputs : PostArrive(s, input)
    \/ \E s \in Slots, code \in {OkCode, PaymentRequired} : GateResolve(s, code)
    \/ \E s \in Slots, ok \in BOOLEAN : ServerConnect(s, ok)
    \/ \E s \in Slots, outcome \in {"ok", "throw"} : TransportHandle(s, outcome)
    \/ \E tr \in 1..MaxTransports : TransportClose(tr)
    \/ \E s \in Slots, sid \in SessionIds : DeleteArrive(s, sid)
    \/ \E s \in Slots, ok \in BOOLEAN : SessionVerbHandle(s, ok)
    \/ \E s \in Slots : Retire(s)
    \/ \E tr \in 1..MaxTransports : OrphanClose(tr)
    \/ \E sid \in CallSids : RemoveTransportCall(sid)
    \/ \E sid \in CallSids : GetTransportCall(sid)
    \/ \E sid \in CallSids : HasSessionCall(sid)

SessionSpec == SessionInit /\ [][SessionNext]_vars

\* The stateless router on its own, with bodies that carry an id or none.
RequestIds == {NoId, NoId + 1}

WithId(r, id) == [r EXCEPT !.id = id]

\* resources/read of a URI that matches the template of no registered
\* resource (notes://today/{city}).
ForeignReads ==
    {NewReq("low", "object", "resources/read", FALSE, NoSid, "token", "notes.today", city) :
        city \in Cities}

RouterInputs == {WithId(r, id) : r \in LowInputs \cup ForeignReads, id \in RequestIds}

RouterInit == Init /\ app = "low"

RouterNext ==
    \/ \E s \in Slots, input \in RouterInputs : LowArrive(s, input)
    \/ \E s \in Slots, code \in {OkCode, PaymentRequired, NetworkError, NoCode} : LowGateResolve(s, code)
    \/ \E s \in Slots, outcome \in AuthzOutcomes  : PaywallAuthorize(s, outcome)
    \/ \E s \in Slots, reachable \in BOOLEAN  : HandlerDone(s, reachable)
    \/ \E s \in Slots, ok \in BOOLEAN : RedeemDone(s, ok)
    \/ \E s \in Slots : Retire(s)

RouterSpec == RouterInit /\ [][RouterNext]_vars

\* The gate of both gateways, with gated bodies that carry an id or none.
GateInputs(disc, sids) == {WithId(r, id) : r \in GatedInputs(disc, sids), id \in RequestIds}

GateNext ==
    \/ \E s \in Slots, input \in GateInputs("high", {NoSid, 1}) : PostArrive(s, input)
    \/ \E s \in Slots, code \in {OkCode, PaymentRequired, NetworkError, NoCode} : GateResolve(s, code)
    \/ \E s \in Slots, ok \in BOOLEAN : ServerConnect(s, ok)
    \/ \E s \in Slots, outcome \in {"ok", "reject", "throw"} : TransportHandle(s, outcome)
    \/ \E tr \in 1..MaxTransports : TransportClose(tr)
    \/ \E s \in Slots, input \in GateInputs("low", {NoSid}) : LowArrive(s, input)
    \/ \E s \in Slots, code \in {OkCode, PaymentRequired, NetworkError, NoCode} : LowGateResolve(s, code)
    \/ \E s \in Slots : Retire(s)

GateSpec == Init /\ [][GateNext]_vars

\* Startup: main runs in any environment; messages arrive once the process
\* listens.
StartupInit ==
    /\ app \in {"high", "low"}
    /\ slots = [s \in Slots |-> Idle]
    /\ transports = <<>>
    /\ sessions = {}
    /\ call = NoCall
    /\ proc \in {Boot(env) : env \in Environments}

StartupNext ==
    \/ Construct
    \/ Listen
    \/ Listening /\ \E s \in Slots, sid \in {NoSid} \cup SessionIds : GetArrive(s, sid)
    \/ Listening /\ \E s \in Slots, input \in LowInputs : LowArrive(s, input)
    \/ \E s \in Slots, code \in {OkCode, PaymentRequired, NetworkError, NoCode} : LowGateResolve(s, code)
    \/ \E s \in Slots, outcome \in AuthzOutcomes  : PaywallAuthorize(s, outcome)
    \/ \E s \in Slots, reachable \in BOOLEAN  : HandlerDone(s, reachable)
    \/ \E s \in Slots, ok \in BOOLEAN : RedeemDone(s, ok)
    \/ \E s \in Slots : Retire(s)

StartupSpec == StartupInit /\ [][StartupNext]_vars

\* The paywall wrapper under concurrent invocations by two subscribers.
MeterInputs ==
    {NewReq("low", "object", m, FALSE, NoSid, c, n, "Madrid") :
        m \in {"tools/call", "prompts/call"}, c \in {"token", "token2"},
        n \in tools \cup prompts}

MeterInit == Init /\ app = "low"

MeterNext ==
    \/ \E s \in Slots, input \in MeterInputs : LowArrive(s, input)
    \/ \E s \in Slots, outcome \in AuthzOutcomes  : PaywallAuthorize(s, outcome)
    \/ \E s \in Slots, reachable \in BOOLEAN  : HandlerDone(s, reachable)
    \/ \E s \in Slots, ok \in BOOLEAN : RedeemDone(s, ok)
    \/ \E s \in Slots : Retire(s)

MeterSpec == MeterInit /\ [][MeterNext]_vars

\* Both gateways with every external call returning or failing in the end:
\* the check of the gate, server.connect, the transport, the authorization,
\* the weather lookup and the redemption.
LiveHighInputs ==
    {NewReq("high", "object", "initialize", TRUE, NoSid, c, "-", "-") : c \in Creds}
        \cup {NewReq("high", "object", m, FALSE, NoSid + 1, c, "weather.today", "Madrid") :
                 m \in {"tools/list", "tools/call"}, c \in Creds}

LiveLowInputs ==
    {NewReq("low", "object", m, FALSE, NoSid, c, "weather.today", "Madrid") :
        m \in {"tools/list", "tools/call"}, c \in Creds}
        \cup OtherInputs("low", {"empty"}, {NoSid})

LiveGate(s) ==
    \E code \in {OkCode, PaymentRequired, NetworkError, NoCode} :
        GateResolve(s, code) \/ LowGateResolve(s, code)

LiveConnect(s) == \E ok \in BOOLEAN : ServerConnect(s, ok)

LiveTransport(s) == \E outcome \in {"ok", "reject", "throw", "late"} : TransportHandle(s, outcome)

LiveAuthorize(s) == \E outcome \in AuthzOutcomes : PaywallAuthorize(s, outcome)

LiveHandler(s) == \E reachable \in BOOLEAN : HandlerDone(s, reachable)

LiveRedeem(s) == \E ok \in BOOLEAN : RedeemDone(s, ok)

LiveNext ==
    \/ \E s \in Slots, input \in LiveHighInputs : PostArrive(s, input)
    \/ \E s \in Slots, input \in LiveLowInputs : LowArrive(s, input)
    \/ \E s \in Slots : LiveGate(s)
    \/ \E s \in Slots : LiveConnect(s)
    \/ \E s \in Slots : LiveTransport(s)
    \/ \E s \in Slots : LiveAuthorize(s)
    \/ \E s \in Slots : LiveHandler(s)
    \/ \E s \in Slots : LiveRedeem(s)
    \/ \E s \in Slots : Retire(s)

LiveFairness ==
    \A s \in Slots :
        /\ WF_vars(LiveGate(s))
        /\ WF_vars(LiveConnect(s))
        /\ WF_vars(LiveTransport(s))
        /\ WF_vars(LiveAuthorize(s))
        /\ WF_vars(LiveHandler(s))
        /\ WF_vars(LiveRedeem(s))

LiveSpec == Init /\ [][LiveNext]_vars /\ LiveFairness

\* ------------------------------------------------------------------ claims
InFlight == {slots[s] : s \in Slots} \ {Idle}

Invoked(r) == Count(r.steps, "invoke") > 0

Redeems(r) == Count(r.steps, "redeem")

IsPrefix(a, b) == Len(a) <= Len(b) /\ \A i \in 1..Len(a) : a[i] = b[i]

PaywallOrder == <<"extract", "authorize", "invoke", "price", "redeem", "return">>

\* The request passed the gate: it carries a credential and, where the
\* authenticateMeta middleware is installed, that check resolved successfully.
PassedGate(r) ==
    /\ r.cred # "none"
    /\ r.gate # "rejected"
    /\ app = "high" => r.gate = "ok"

\* C1: a message with a gated method and no credential is answered with
\* -32003 and touches nothing behind the gate: no session lookup, no
\* transport, no paywall step, no handler.
C1_NoCredentialStopsAtGate ==
    \A r \in InFlight :
        (r.method \in gatedMethods /\ r.cred = "none") =>
            /\ r.pc \in {"gate", "done"}
            /\ ~r.looked
            /\ r.tr = NoTr
            /\ r.steps = <<>>
            /\ r.hres = NoResult
            /\ r.pc = "done" => r.resp.code = PaymentRequired

C1_Witness ==
    \E r \in InFlight :
        /\ r.method = "initialize" /\ r.isInit /\ r.sid = NoSid
        /\ r.cred = "none"
        /\ r.pc = "done"
        /\ r.resp.code = PaymentRequired

\* C2: for a gated message the gate's check is resolved before the session
\* table is consulted, a transport is created or the message is forwarded,
\* and forwarding happens only after the check succeeded.
C2_GateResolvedBeforeRouting ==
    \A r \in InFlight :
        (r.disc = "high" /\ r.method \in gatedMethods) =>
            /\ r.gate = "pending" => (r.pc = "gate" /\ ~r.looked /\ r.tr = NoTr)
            /\ (r.looked \/ r.tr # NoTr \/ r.pc \in {"connect", "handle"}) => PassedGate(r)

C2_Witness ==
    \E r \in InFlight :
        /\ app = "high"
        /\ r.method \in gatedMethods
        /\ r.gate = "ok"
        /\ r.pc = "handle"

\* C3: the raw handler runs only for a request with a credential whose
\* authorization check reported an active subscriber; otherwise no handler,
\* no weather lookup and no redemption.
C3_HandlerOnlyForSubscribers ==
    \A r \in InFlight :
        /\ (Invoked(r) \/ r.pc = "handler" \/ r.hres # NoResult \/ r.herr # NoError) =>
              (r.cred # "none" /\ r.authz = "ok")
        /\ (r.cred = "none" \/ r.authz \in {"notsub", "invalid", "network"}) =>
              (~Invoked(r) /\ Redeems(r) = 0 /\ r.pc \notin {"handler", "redeem"})

C3_Witness ==
    \E r \in InFlight :
        /\ r.authz = "notsub"
        /\ r.pc = "done"
        /\ r.steps = <<"extract", "authorize">>
        /\ r.resp.code # OkCode

\* C4: the metering steps of one invocation occur in the order extract,
\* authorize, invoke, resolve price, redeem, return; none is skipped once
\* the handler has produced its result, and redemption never precedes it.
C4_MeteringOrder ==
    \A r \in InFlight :
        /\ IsPrefix(r.steps, PaywallOrder)
        /\ Redeems(r) > 0 => r.hres # NoResult
        /\ r.pc = "redeem" => r.steps = SubSeq(PaywallOrder, 1, 5)
        /\ (r.pc = "done" /\ r.hres # NoResult) => r.steps = PaywallOrder

C4_Witness ==
    \E r \in InFlight :
        /\ r.pc = "done"
        /\ r.hres.kind = "tool"
        /\ r.steps = PaywallOrder

\* C5: when the raw handler fails no redemption call is made and the caller
\* receives the handler's failure, not a metering-layer error.
C5_HandlerFailurePropagates ==
    \A r \in InFlight :
        r.herr # NoError =>
            /\ r.pc = "done"
            /\ Redeems(r) = 0
            /\ r.resp.msg = r.herr.msg
            /\ r.resp.code \notin {OkCode, PaymentRequired}

C5_Witness ==
    \E r \in InFlight :
        /\ r.herr.msg = "City not found"
        /\ r.pc = "done"
        /\ r.resp.msg = "City not found"

C7_OneRedemptionAtResolvedPrice ==
    \A r \in InFlight :
        /\ Redeems(r) <= 1
        /\ Redeems(r) = 1 => r.redeemAmt = r.price
        /\ (r.hres # NoResult /\ r.pc \in {"redeem", "done"}) =>
              (Redeems(r) = 1 /\ r.redeemAmt = r.price /\ r.price \in Prices(r))

C7_Witness ==
    \E r \in InFlight, q \in InFlight :
        /\ r.pc = "done" /\ r.hres.kind = "prompt" /\ Redeems(r) = 1
        /\ r.redeemAmt = PromptCredits
        /\ q.pc = "redeem" /\ q.hres.kind = "tool"
        /\ q.redeemAmt = CreditsBase + CreditsSpread - 1

\* C8: on both routing disciplines a capability invocation that fails
\* authorization (credential missing or invalid, caller not subscribed) is
\* answered with code -32003.
C8_AuthorizationFailureCode ==
    \A r \in InFlight :
        (/\ r.pc = "done"
         /\ r.steps # <<>>
         /\ (r.cred = "none" \/ r.authz \in {"notsub", "invalid"})) =>
            r.resp.code = PaymentRequired

\* The step in which the POST handler takes its routing decision for the
\* request in slot s: it arrives or its gate check resolves, and it is not
\* left waiting at the gate.
Routed(s) ==
    /\ slots[s].pc \in {"idle", "gate"}
    /\ slots'[s].pc \notin {"idle", "gate"}
    /\ slots'[s].disc = "high"
    /\ slots'[s].verb = "POST"

\* Neither a known session identifier nor an establishment message without one.
Unroutable(r) ==
    /\ ~(r.sid # NoSid /\ \E e \in sessions : e.sid = r.sid)
    /\ ~(r.sid = NoSid /\ r.shape = "object" /\ r.method = "initialize" /\ r.isInit)

AnsweredNoSession(s) ==
    /\ slots'[s].pc = "done"
    /\ slots'[s].resp.code = NoValidSession
    /\ slots'[s].tr = NoTr
    /\ sessions' = sessions
    /\ transports' = transports

\* C9 as stated: every POST message that is unroutable is answered with
\* -32000, forwarded nowhere, and leaves the session table unchanged.
C9_UnroutableAlwaysNoSession ==
    [][\A s \in Slots : (Routed(s) /\ Unroutable(slots'[s])) => AnsweredNoSession(s)]_vars

\* C9 amended: every POST message that the gate did not reject and that is
\* unroutable is answered with -32000, forwarded nowhere, and leaves the
\* session table unchanged.
C9_UnroutableAfterGateNoSession ==
    [][\A s \in Slots :
          (Routed(s) /\ slots'[s].gate # "rejected" /\ Unroutable(slots'[s]))
              => AnsweredNoSession(s)]_vars

C9_Witness ==
    \E r \in InFlight :
        /\ r.disc = "high"
        /\ r.method = "initialize" /\ r.isInit /\ r.sid # NoSid
        /\ r.cred # "none"
        /\ r.pc = "done"
        /\ r.looked
        /\ r.resp.code = NoValidSession

\* C10: a transport is created, and an entry is added to the session table,
\* only by an establishment message without a session identifier that
\* passed the gate.
Establishing(r) ==
    /\ r.disc = "high"
    /\ r.sid = NoSid
    /\ r.shape = "object" /\ r.method = "initialize" /\ r.isInit
    /\ PassedGate(r)

C10_OnlyEstablishmentCreatesSessions ==
    [][/\ Len(transports') > Len(transports) =>
            \E s \in Slots : /\ Routed(s)
                             /\ slots'[s].pc = "connect"
                             /\ slots'[s].tr = Len(transports')
                             /\ Establishing(slots'[s])
       /\ \A e \in sessions' \ sessions :
            \E s \in Slots : /\ slots[s].pc = "handle"
                             /\ slots'[s].pc = "done"
                             /\ slots[s].tr = e.tr
                             /\ Establishing(slots[s])]_vars

C10_Witness ==
    \E r \in InFlight :
        /\ r.pc = "done"
        /\ r.resp.result.kind = "initialize"
        /\ r.disc = "high"
        /\ \E e \in sessions : e.tr = r.tr

\* The step in which a handler of the session-oriented server decides what
\* to do with the request in slot s.
Dispatched(s) ==
    /\ slots[s].pc \in {"idle", "gate"}
    /\ slots'[s].pc \notin {"idle", "gate"}
    /\ slots'[s].disc = "high"

\* The transports registered under the identifier before the step.
RegisteredUnder(sid) == {e.tr : e \in {f \in sessions : f.sid = sid}}

C12_SessionVerbsNoValidSession ==
    \A r \in InFlight :
        (r.verb \in {"GET", "DELETE"} /\ r.pc = "done" /\ r.tr = NoTr) =>
            r.resp.code = NoValidSession

\* At most one table entry per identifier and per transport, and no two
\* transports with the same identifier.
UniqueSessions ==
    /\ \A e, f \in sessions : (e.sid = f.sid \/ e.tr = f.tr) => e = f
    /\ \A t, u \in DOMAIN transports :
          (transports[t].sessionId # NoSid /\ transports[t].sessionId = transports[u].sessionId)
              => t = u

\* C13: the session table holds at most one session per identifier, an
\* identifier is never given to a new session while it is registered, and
\* concurrent establishment messages get distinct identifiers and transports.
C13_OneSessionPerIdentifier ==
    [][/\ UniqueSessions'
       /\ \A e \in sessions' \ sessions : \A f \in sessions : f.sid # e.sid /\ f.tr # e.tr]_vars

C13_Witness ==
    \E r \in InFlight, q \in InFlight :
        /\ r.pc = "done" /\ r.resp.result.kind = "initialize"
        /\ q.pc = "done" /\ q.resp.result.kind = "initialize"
        /\ r.tr # NoTr /\ q.tr # NoTr /\ r.tr # q.tr
        /\ transports[r.tr].sessionId # transports[q.tr].sessionId
        /\ \E e \in sessions, f \in sessions : e.tr = r.tr /\ f.tr = q.tr

\* C14 as stated: when createTransport returns, the session table holds an
\* entry for the new transport.
C14_RegisteredOnCreate ==
    [][Len(transports') > Len(transports) =>
          \E e \in sessions' : e.tr = Len(transports')]_vars

\* C14 amended: createTransport returns a transport without an identifier
\* and leaves the session table unchanged; the transport is registered when
\* it handles the establishment message, and from the step that gives it
\* its identifier on, hasSession of that identifier is true.
C14_RegisteredOnInitialize ==
    [][/\ Len(transports') > Len(transports) =>
             /\ sessions' = sessions
             /\ transports'[Len(transports')].sessionId = NoSid
       /\ \A t \in DOMAIN transports :
             (transports[t].sessionId = NoSid /\ transports'[t].sessionId # NoSid) =>
                 /\ \E e \in sessions' : e.sid = transports'[t].sessionId
                 /\ [sid |-> transports'[t].sessionId, tr |-> t] \in sessions'
       /\ \A e \in sessions' : transports'[e.tr].sessionId = e.sid]_vars

C14_Witness ==
    \E t \in DOMAIN transports, u \in DOMAIN transports :
        /\ transports[t].sessionId # NoSid
        /\ [sid |-> transports[t].sessionId, tr |-> t] \in sessions
        /\ transports[u].sessionId = NoSid
        /\ \A e \in sessions : e.tr # u

\* A transport that has closed is not in the session table.
ClosedNotRegistered ==
    \A t \in DOMAIN transports :
        transports[t].closed => \A e \in sessions : e.tr # t /\ e.sid # transports[t].sessionId

\* The step is a direct call of the named session-manager method.
Called(op) == call' # call /\ call'.op = op

\* C15: removeTransport(id) returns true exactly when the table held an
\* entry for id, which it removes and nothing else; a call that follows a
\* successful removal of the same id, or the close notification of the
\* transport with that id, returns false and changes nothing; and a close
\* notification after a removal changes nothing either.
C15_RemoveIdempotent ==
    [][/\ Called("removeTransport") =>
             LET sid == call'.sid
                 existed == \E e \in sessions : e.sid = sid
             IN  /\ call'.found = existed
                 /\ call'.found = (sessions' # sessions)
                 /\ sessions' = {e \in sessions : e.sid # sid}
                 /\ (call.op = "removeTransport" /\ call.sid = sid /\ call.found) =>
                       (~call'.found /\ sessions' = sessions)
                 /\ (\E t \in DOMAIN transports :
                        transports[t].closed /\ transports[t].sessionId = sid) =>
                       (~call'.found /\ sessions' = sessions)
       /\ \A t \in DOMAIN transports :
             (~transports[t].closed /\ transports'[t].closed) =>
                 sessions' = {e \in sessions : e.sid # transports[t].sessionId}]_vars

\* A second removal of an identifier whose transport is still open.
C15_Witness ==
    /\ call.op = "removeTransport"
    /\ ~call.found
    /\ \E t \in DOMAIN transports :
          /\ transports[t].sessionId = call.sid
          /\ ~transports[t].closed
          /\ \A e \in sessions : e.sid # call.sid
    /\ sessions # {}

\* C16: getTransport(id) and hasSession(id) leave the session table as it
\* is; for a registered id they return its transport and true, for any other
\* id they return undefined and false, and a handler that finds the id
\* unknown answers without an internal error.
C16_LookupIsPure ==
    [][/\ (Called("getTransport") \/ Called("hasSession")) =>
             LET sid == call'.sid
                 known == \E e \in sessions : e.sid = sid
             IN  /\ sessions' = sessions
                 /\ transports' = transports
                 /\ call'.found = known
                 /\ (Called("getTransport") /\ known) =>
                       [sid |-> sid, tr |-> call'.tr] \in sessions
                 /\ ~known => call'.tr = NoTr
       /\ \A s \in Slots :
             (Dispatched(s) /\ slots'[s].pc = "done" /\ slots'[s].tr = NoTr) =>
                 /\ sessions' = sessions
                 /\ slots'[s].resp.code # InternalError]_vars

C16_Witness ==
    /\ call.op = "getTransport"
    /\ ~call.found
    /\ call.tr = NoTr
    /\ sessions # {}
    /\ \A e \in sessions : e.sid # call.sid

\* The request in slot s was turned away without reaching a transport: by
\* the no-session answer of its handler or, for a gated POST, by the gate.
TurnedAway(r) ==
    /\ r.pc = "done"
    /\ r.tr = NoTr
    /\ IF r.gate = "rejected" THEN r.resp.code \in {PaymentRequired, NetworkError}
       ELSE IF r.verb = "POST" THEN r.resp.code = NoValidSession
       ELSE r.resp.code = NoCode /\ r.resp.msg = "Invalid or missing session ID"

PastAuthorization(r) == r.pc \in {"handler", "redeem"}

\* C18: an invocation that has passed authorization is changed by no step
\* but its own: removing its session from the table or closing its
\* transport leaves it as it is, its next step stays possible, and it ends
\* with the redemption attempted and the handler's outcome returned.
C18_InFlightInvocationCompletes ==
    [][\A s \in Slots :
          PastAuthorization(slots[s]) =>
              /\ ENABLED HandlerDone(s, TRUE) \/ ENABLED RedeemDone(s, TRUE)
              /\ (sessions' # sessions \/ transports' # transports) => slots'[s] = slots[s]
              /\ slots'[s] # slots[s] =>
                    /\ slots'[s].pc \in {"redeem", "done"}
                    /\ slots'[s].authz = "ok"
                    /\ IsPrefix(slots[s].steps, slots'[s].steps)
                    /\ IsPrefix(slots'[s].steps, PaywallOrder)
                    /\ slots'[s].pc = "done" =>
                          \/ slots'[s].herr # NoError /\ slots'[s].resp.msg = slots'[s].herr.msg
                          \/ slots'[s].steps = PaywallOrder /\ slots'[s].resp.result = slots'[s].hres]_vars

\* An invocation waiting for its redemption whose session has been closed.
C18_Witness ==
    \E r \in InFlight :
        /\ r.disc = "high"
        /\ r.pc = "redeem"
        /\ transports[r.tr].closed
        /\ transports[r.tr].sessionId = r.sid
        /\ \A e \in sessions : e.sid # r.sid

\* C19: within one session messages are handed to the session's transport
\* in arrival order: a message that arrives while an earlier message of the
\* same session is still waiting for its authorization check at the gate is
\* not handed to the transport ahead of it.
C19_NoOvertakingWithinSession ==
    [][\A s \in Slots, t \in Slots :
          (/\ s # t
           /\ slots[t].pc = "gate"
           /\ slots[t].sid # NoSid
           /\ RegisteredUnder(slots[t].sid) # {}
           /\ slots[s] = Idle
           /\ slots'[s] # Idle
           /\ slots'[s].verb = "POST"
           /\ slots'[s].sid = slots[t].sid)
              => slots'[s].pc # "handle"]_vars

Authorizations(r) == Count(r.steps, "authorize")

\* C20: the authorization check is called exactly once per capability
\* invocation, also when invocations of the same capability interleave:
\* never twice, once for every invocation that carries a credential, and
\* once before any handler runs.
C20_AuthorizedExactlyOnce ==
    \A r \in InFlight :
        /\ Authorizations(r) <= 1
        /\ (r.steps # <<>> /\ r.cred # "none") => Authorizations(r) = 1
        /\ (r.authz # "none") <=> (Authorizations(r) = 1)
        /\ (Invoked(r) \/ PastAuthorization(r) \/ r.hres # NoResult \/ r.herr # NoError)
              => (Authorizations(r) = 1 /\ r.authz = "ok")
        /\ r.steps # <<>> => r.gate = "none"

\* Two callers' invocations of the same tool, both past authorization.
C20_Witness ==
    \A s \in Slots :
        /\ slots[s].pc = "handler"
        /\ slots[s].method = "tools/call"
        /\ slots[s].name = "weather.today"
        /\ Authorizations(slots[s]) = 1

\* The credits context of an invocation whose price has been resolved: the
\* handler arguments, the handler result and the request metadata.
Priced(r) == Count(r.steps, "price") > 0

CreditsContext(r) ==
    [method |-> r.method, name |-> r.name, city |-> r.city,
     cred |-> r.cred, result |-> r.hres]

\* C21: the dynamic price of the weather tool is a function of its credits
\* context: two invocations of weather.today whose price has been resolved
\* from the same arguments, handler result and request metadata have been
\* priced at the same amount.
C21_PriceIsFunctionOfContext ==
    \A r, q \in InFlight :
        /\ Priced(r) /\ Priced(q)
        /\ Kind(r) = "tool" /\ Kind(q) = "tool"
        /\ CreditsContext(r) = CreditsContext(q)
        => r.price = q.price

\* A tools/call or prompts/call of the stateless router that names a target.
NamedCall(r) ==
    /\ r.disc = "low" /\ r.shape # "empty"
    /\ r.method \in {"tools/call", "prompts/call"}
    /\ r.name # "-"

WrapperCalls(r) == Count(r.steps, "extract")

Returned(r) == Count(r.steps, "return") > 0

\* C22: in the stateless router a tools/call or prompts/call whose name is
\* not registered is answered with -32601 and no handler runs; for a
\* registered name the handler is called exactly once, it receives the
\* message's arguments and the caller's credential header, and when it
\* returns, its return value is the result of a success envelope that carries
\* the id of the request (null when the body has none).
C22_RouterMissAndHit ==
    \A r \in InFlight : NamedCall(r) =>
        IF ~Registered(r)
        THEN /\ r.pc = "done"
             /\ r.resp.code = MethodNotFound
             /\ r.steps = <<>>
        ELSE /\ WrapperCalls(r) = 1
             /\ Count(r.steps, "invoke") <= 1
             /\ Count(r.steps, "authorize") = (IF extractAuthHeader(r) THEN 1 ELSE 0)
             /\ Invoked(r) /\ r.hres # NoResult => r.hres.city = r.city
             /\ Returned(r) =>
                   /\ r.pc = "done"
                   /\ r.resp.code = OkCode
                   /\ r.resp.result = r.hres
                   /\ r.resp.id = IdOrNull(r)

C22_Witness ==
    /\ \E r \in InFlight :
          /\ NamedCall(r) /\ Registered(r) /\ Returned(r)
          /\ r.id # NoId /\ r.resp.id = r.id
    /\ \E q \in InFlight :
          /\ NamedCall(q) /\ ~Registered(q) /\ q.resp.code = MethodNotFound

\* The raw handler looked up the city the request names, and geocoding found
\* no match for it.
GeocodeFailed(r) == r.herr.msg = "City not found" /\ HandlerCity(r) = r.city

\* C23: when the weather lookup behind a resource read or a tool call fails
\* because the city cannot be geocoded, the caller receives error code -32004
\* and no redemption call is made.
C23_CityNotFoundCode ==
    \A r \in InFlight :
        GeocodeFailed(r) /\ r.pc = "done" =>
            /\ r.resp.code = CityNotFound
            /\ Redeems(r) = 0

\* The gate called the authentication check for a message that carries a
\* credential, and the check rejected.
CheckFailed(r) == r.gate = "rejected" /\ r.gerr # NoError /\ extractAuthHeader(r)

\* C24: when the authentication check of the gate fails for a gated message
\* that carries a credential, the answer is an error envelope with the code
\* and the message of the check's error, -32003 when that error has no code,
\* and with the id of the request; the message is never routed: no session
\* lookup, no transport, no capability step.
C24_GateFailureEnvelope ==
    \A r \in InFlight : CheckFailed(r) =>
        /\ r.pc = "done"
        /\ r.resp.code = (IF r.gerr.code = NoCode THEN PaymentRequired ELSE r.gerr.code)
        /\ r.resp.msg = (IF r.gerr.msg = "" THEN "Payment required" ELSE r.gerr.msg)
        /\ r.resp.id = IdOrNull(r)
        /\ r.resp.result = NoResult
        /\ ~r.looked /\ r.tr = NoTr /\ r.steps = <<>>

C24_Witness ==
    /\ \E r \in InFlight :
          /\ CheckFailed(r) /\ r.disc = "high"
          /\ r.gerr.code = NoCode /\ r.resp.code = PaymentRequired
          /\ r.id # NoId /\ r.resp.id = r.id
    /\ \E q \in InFlight :
          /\ CheckFailed(q) /\ q.gerr.code = NetworkError
          /\ q.resp.code = NetworkError /\ q.resp.id = NullId

\* A POST message handled by one of the two gateways as the applications
\* build them, both with the authenticateMeta check.
Classified(r) == r.verb = "POST" /\ app \in {"high", "low"} /\ r.pc # "gate"

\* The classifier of the other discipline, applied to the same message.
OtherClassifier(r) == IF r.disc = "high" THEN LowGated(r) ELSE MiddlewareGated(r)

\* The decision both gates draw from the outcome of the check.
RejectedWith(r, code) ==
    /\ r.gate = "rejected" /\ r.pc = "done"
    /\ r.resp.code = code
    /\ ~r.looked /\ r.tr = NoTr /\ r.steps = <<>>

CheckedMethods == {"initialize", "tools/list", "resources/list", "prompts/list"}

MustBeChecked(r) == r.shape = "object" /\ r.method \in CheckedMethods

\* C26: a message goes through the authorization check of the gate exactly
\* when its body is an object whose method is initialize, tools/list,
\* resources/list or prompts/list.  With authenticateMeta the check is that
\* call; without it, it is the header test of the POST handler, which turns
\* away exactly the gated messages without a credential.  Every other
\* message reaches routing with no check made on it.
C26_GatedExactlyMetaMethods ==
    \A r \in InFlight : r.verb = "POST" =>
        /\ app \in {"high", "low"} => ((r.gate # "none") = MustBeChecked(r))
        /\ app = "highNoMeta" =>
              (r.gate = "rejected") = (MustBeChecked(r) /\ ~extractAuthHeader(r))
        /\ ~MustBeChecked(r) =>
              /\ r.gate = "none" /\ r.gerr = NoError
              /\ r.disc = "high" => r.looked

C26_Witness ==
    /\ app = "high"
    /\ \E r \in InFlight : MustBeChecked(r) /\ r.gate = "ok" /\ r.looked
    /\ \E q \in InFlight :
          /\ q.verb = "POST" /\ q.shape = "array" /\ q.gate = "none" /\ q.looked

\* A message can arrive: on the session path (POST, GET) or the stateless path.
Arrival ==
    \/ \E s \in Slots, input \in HighInputs : PostArrive(s, input)
    \/ \E s \in Slots, sid \in {NoSid} \cup SessionIds : GetArrive(s, sid)
    \/ \E s \in Slots, input \in LowInputs : LowArrive(s, input)

\* In this step the catch block of the handler of request s caught an error.
CaughtIn(s) ==
    /\ slots'[s] # Idle /\ slots'[s].fail # NoError
    /\ slots[s] = Idle \/ slots[s].fail = NoError

StillServing == (\E s \in Slots : slots[s] = Idle) => ENABLED Arrival

Started == proc.state \in {"constructed", "listening"}

\* C28 as stated: startup fails before listening whenever the builder
\* credential, the capability-owner identifier or the environment selector
\* is missing from the environment.
C28_AnyAbsentFailsStartup ==
    ~proc.env.key \/ ~proc.env.agent \/ proc.env.selector = ""
        => ~Started /\ InFlight = {}

\* C28, amended: startup fails before listening exactly when the builder
\* credential or the capability-owner identifier is missing; a missing
\* environment selector is replaced by staging_sandbox.  No message is
\* handled by a process that does not listen.
C28_CredentialOrOwnerAbsentFailsStartup ==
    /\ ~proc.env.key \/ ~proc.env.agent => ~Started /\ InFlight = {}
    /\ proc.state = "exited" => ~proc.env.key \/ ~proc.env.agent
    /\ Started =>
          /\ proc.config.ok
          /\ proc.config.nvmEnvironment =
                (IF proc.env.selector = "" THEN "staging_sandbox" ELSE proc.env.selector)
    /\ InFlight # {} => Listening

C28_Witness ==
    proc.state = "exited" /\ proc.env.key /\ ~proc.env.agent /\ proc.env.selector # ""

\* A resources/read of the stateless router whose resource handler was called.
LowResourceRead(r) ==
    r.disc = "low" /\ r.method = "resources/read" /\ Invoked(r)

\* C29: in the stateless router a resources/read of weather://today/{city}
\* makes the resource handler look up the city named in the URI: a result is
\* the weather of that city, and the lookup fails as city-not-found only
\* when geocoding does not know that city.
C29_ResourceReadLooksUpUriCity ==
    \A r \in InFlight : LowResourceRead(r) =>
        /\ r.hres # NoResult => r.hres.city = r.city
        /\ r.herr.msg = "City not found" => r.city \notin GeocodeKnown

\* The stateless router found no handler: -32601 and no capability step.
LowMiss(r) == r.pc = "done" /\ r.resp.code = MethodNotFound /\ r.steps = <<>>

\* C30: the stateless router keeps the three namespaces apart: a tools/call
\* finds a handler only for a name registered as a tool, a prompts/call only
\* for a name registered as a prompt, and a resources/read only when its URI
\* is that of a registered resource.
C30_SeparateNamespaces ==
    \A r \in InFlight : r.disc = "low" /\ r.shape = "object" /\ r.pc # "gate" =>
        /\ r.method = "tools/call" /\ r.name \notin tools => LowMiss(r)
        /\ r.method = "prompts/call" /\ r.name \notin prompts => LowMiss(r)
        /\ r.method = "resources/read" /\ r.name \notin resources => LowMiss(r)

Redeeming(s) == slots[s] # Idle /\ Redeems(slots[s]) > 0

\* C31: under any interleaving of concurrent invocations, the redeem call of
\* an invocation names the agentRequestId its own authorization returned and
\* its own credential; two invocations in flight never hold the same
\* agentRequestId, so a redeem call never names that of another invocation.
C31_RedeemUsesOwnAuthorization ==
    \A s \in Slots : Redeeming(s) =>
        /\ slots[s].reqId # NoReq
        /\ slots[s].redeemReq = slots[s].reqId
        /\ slots[s].redeemCred = slots[s].cred
        /\ \A t \in Slots \ {s} :
              slots[t] # Idle /\ slots[t].reqId # NoReq
                  => slots[s].redeemReq # slots[t].reqId

C31_Witness ==
    \E s, t \in Slots :
        /\ s # t /\ Redeeming(s) /\ Redeeming(t)
        /\ slots[s].cred # slots[t].cred
        /\ slots[s].redeemReq # slots[t].redeemReq
        /\ slots[s].redeemReq # NoReq + 1

\* C32: every amount weatherToolCreditsCalculator returns is a whole number
\* of credits between 1 and 10, hence never negative.
C32_CreditsBetweenOneAndTen ==
    \A r \in InFlight :
        Priced(r) /\ Kind(r) # "prompt" => r.price \in 1..10

\* A batch on the session path that holds a message with a gated method and
\* comes without a credential.
GatedBatch(r) ==
    /\ r.verb = "POST" /\ r.disc = "high" /\ r.shape = "array"
    /\ r.inner \in CheckedMethods
    /\ ~extractAuthHeader(r)

\* C33: a batch that contains a message with a gated method goes through the
\* gate like a single gated message: without a credential it is rejected
\* and never reaches a session transport.
C33_BatchIsGated ==
    \A r \in InFlight : GatedBatch(r) =>
        /\ r.gate = "rejected"
        /\ r.tr = NoTr

\* Every table entry: an open transport whose own identifier is the key.
TableWellFormed ==
    \A e \in sessions :
        /\ e.tr \in DOMAIN transports
        /\ ~transports[e.tr].closed
        /\ transports[e.tr].sessionId = e.sid

\* Transport tr closes in this step.
Closes(tr) == ~transports[tr].closed /\ transports'[tr].closed

\* C34: in every state each entry of the session table maps an identifier
\* to an open transport whose own session identifier is the key; the close
\* of a transport removes the entry keyed by its own identifier and no
\* other, and the close of a transport that has no identifier yet removes
\* nothing.
C34_TableEntriesAreOpenAndSelfKeyed ==
    /\ []TableWellFormed
    /\ [][\A tr \in DOMAIN transports : Closes(tr) =>
             /\ sessions' = {e \in sessions : e.sid # transports[tr].sessionId}
             /\ transports[tr].sessionId = NoSid => sessions' = sessions]_vars

C34_Witness ==
    /\ \E t \in DOMAIN transports : transports[t].closed /\ transports[t].sessionId = NoSid
    /\ \E u \in DOMAIN transports : ~transports[u].closed /\ hasSession(transports[u].sessionId)

\* Request s is establishing a session: its transport is constructed and
\* has not yet reported an identifier.
Unestablished(s) ==
    /\ slots[s] # Idle /\ slots[s].verb = "POST"
    /\ slots[s].pc \in {"connect", "handle"}
    /\ slots[s].tr # NoTr
    /\ transports[slots[s].tr].sessionId = NoSid

\* No table entry leads to a transport without identifier.
NoEntryWithoutIdentifier ==
    \A e \in sessions : transports[e.tr].sessionId # NoSid

Pending(s) == slots[s] # Idle /\ slots[s].pc # "done"

Answered(s) == slots[s] # Idle /\ slots[s].pc = "done" /\ slots[s].answers = 1

\* No request has more than one response written for it, a request the gate
\* rejected was never routed, and a finished request has its one response.
AnsweredAtMostOnce ==
    \A r \in InFlight :
        /\ r.answers <= 1
        /\ r.pc = "done" => r.answers = 1
        /\ r.gate = "rejected" => ~r.looked /\ r.tr = NoTr /\ r.steps = <<>>

\* C36: provided every external call returns or fails in the end, every POST
\* message on either gateway eventually has its response, and no request is
\* answered twice: a rejected gate check never also routes the message, and
\* an error caught after the response was started writes no second response.
C36_EveryPostAnsweredOnce ==
    /\ []AnsweredAtMostOnce
    /\ \A s \in Slots : Pending(s) ~> Answered(s)

C36_Witness ==
    \E r \in InFlight :
        /\ r.pc = "done" /\ r.disc = "high"
        /\ r.fail # NoError /\ r.resp.code = InvalidRequest
        /\ r.answers = 1

====
